---------------------------- MODULE Spec2Model ----------------------------
(***************************************************************************)
(* Model of the LMT01 pulse-count temperature sensor driver (lmt01.c /     *)
(* lmt01.h): the sampling-window protocol driven through the injected      *)
(* timer capability, and the pulse-count to temperature conversion.        *)
(***************************************************************************)
EXTENDS Integers, Sequences, FiniteSets, TLC

(***************************************************************************)
(* Bounds of the model.                                                    *)
(***************************************************************************)
\* Largest pulse count handed to the conversion function on its own.
MaxPulses == 4100
\* Largest number of consecutive busy 10 ms windows of a sensor that idles.
MaxBusy == 2

(***************************************************************************)
(* Floating point.  A finite value is sign, integer part and the bits of   *)
(* the binary fraction (most significant first, no trailing zero), so the  *)
(* 53-bit significand of a double never has to fit a machine integer.      *)
(***************************************************************************)
\* Significand widths of the C types double and float (IEEE 754 binary64/32).
DBL_MANT_DIG == 53
FLT_MANT_DIG == 24

Pow2(n) == 2 ^ n

RECURSIVE BitLen(_)
BitLen(n) == IF n = 0 THEN 0 ELSE 1 + BitLen(n \div 2)

Abs(n) == IF n < 0 THEN -n ELSE n

\* The place of the last bit equal to v in a bit sequence (0: there is none).
LastPlace(s, v) ==
    IF \A j \in 1..Len(s) : s[j] # v THEN 0
    ELSE CHOOSE j \in 1..Len(s) : s[j] = v /\ \A i \in (j + 1)..Len(s) : s[i] # v

\* The place of the first one bit of a bit sequence (Len + 1: there is none).
FirstOne(s) ==
    IF \A j \in 1..Len(s) : s[j] = 0 THEN Len(s) + 1
    ELSE CHOOSE j \in 1..Len(s) : s[j] = 1 /\ \A i \in 1..(j - 1) : s[i] = 0

StripZeros(s) == SubSeq(s, 1, LastPlace(s, 1))

\* The m bits of the number q < 2^m, most significant first.
Bits(q, m) == [j \in 1..m |-> (q \div Pow2(m - j)) % 2]

\* How many bits of r/b one step of the long division yields with r * 2^m
\* still a machine integer.
Chunk(b, n) == LET m == 30 - BitLen(b) IN IF n < m THEN n ELSE m

\* The first n bits of the binary fraction r/b, for 0 <= r < b < 2^29.
RECURSIVE FracDigits(_, _, _)
FracDigits(r, b, n) ==
    IF n = 0 THEN <<>>
    ELSE LET m == Chunk(b, n)
         IN  Bits((r * Pow2(m)) \div b, m) \o FracDigits((r * Pow2(m)) % b, b, n - m)

\* What is left of r/b after its first n bits (zero iff they are all of it).
RECURSIVE FracRem(_, _, _)
FracRem(r, b, n) ==
    IF n = 0 THEN r
    ELSE LET m == Chunk(b, n) IN FracRem((r * Pow2(m)) % b, b, n - m)

\* Zero bits before the first one bit of the fraction r/b, for 0 < r < b.
RECURSIVE LeadZeros(_, _)
LeadZeros(r, b) == IF 2 * r >= b THEN 0 ELSE 1 + LeadZeros(2 * r, b)

\* Zero bits before the first one bit of a fraction given by its bits.
SeqLeadZeros(s) == FirstOne(s) - 1

\* One unit in the last place added to int.frac (the carry runs leftwards
\* over the trailing one bits, up to the last zero bit).
Inc(int, frac) ==
    LET z == LastPlace(frac, 0)
    IN  IF z = 0
        THEN [int |-> int + 1, frac |-> [j \in 1..Len(frac) |-> 0]]
        ELSE [int |-> int,
              frac |-> [j \in 1..Len(frac) |->
                          IF j < z THEN frac[j] ELSE IF j = z THEN 1 ELSE 0]]

Fin(neg, int, frac) ==
    LET f == StripZeros(frac)
    IN  [k |-> "fin", neg |-> neg /\ ~(int = 0 /\ f = <<>>), int |-> int, frac |-> f]

Inf(neg) == [k |-> "inf", neg |-> neg, int |-> 0, frac |-> <<>>]
NaN == [k |-> "nan", neg |-> FALSE, int |-> 0, frac |-> <<>>]

\* Round-to-nearest, ties-to-even, of (-1)^neg * (int.frac + a bit more when
\* sticky) to mant significant bits: the rounding of every IEEE 754 operation.
RoundMant(neg, int, frac, sticky, mant) ==
    LET nI == BitLen(int)
    IN  IF nI > mant
        THEN LET sh   == nI - mant
                 q    == int \div Pow2(sh)
                 rem  == int % Pow2(sh)
                 half == Pow2(sh - 1)
                 st   == sticky \/ (\E j \in 1..Len(frac) : frac[j] = 1)
                 up   == rem > half \/ (rem = half /\ (st \/ q % 2 = 1))
             IN  Fin(neg, (IF up THEN q + 1 ELSE q) * Pow2(sh), <<>>)
        ELSE LET keep == IF nI > 0 THEN mant - nI ELSE SeqLeadZeros(frac) + mant
             IN  IF Len(frac) <= keep
                 THEN Fin(neg, int, frac)
                 ELSE LET r    == frac[keep + 1]
                          st   == sticky \/ (\E j \in (keep + 2)..Len(frac) : frac[j] = 1)
                          lsb  == IF keep > 0 THEN frac[keep] ELSE int % 2
                          kept == SubSeq(frac, 1, keep)
                          up   == r = 1 /\ (st \/ lsb = 1)
                          res  == IF up THEN Inc(int, kept) ELSE [int |-> int, frac |-> kept]
                      IN  Fin(neg, res.int, res.frac)

\* The double a / b of two integer-valued doubles.
DDiv(a, b) ==
    IF b = 0 THEN (IF a = 0 THEN NaN ELSE Inf(a < 0))
    ELSE LET neg == (a < 0) # (b < 0)
             A   == Abs(a)
             B   == Abs(b)
             I   == A \div B
             R   == A % B
             n   == IF R = 0 THEN 0
                    ELSE (IF I > 0 THEN DBL_MANT_DIG - BitLen(I)
                                   ELSE LeadZeros(R, B) + DBL_MANT_DIG) + 1
         IN  RoundMant(neg, I, FracDigits(R, B, n), FracRem(R, B, n) # 0, DBL_MANT_DIG)

\* The number whose bits s are, most significant first.
RECURSIVE BitsVal(_)
BitsVal(s) == IF s = <<>> THEN 0 ELSE 2 * BitsVal(SubSeq(s, 1, Len(s) - 1)) + s[Len(s)]

\* The double x * 2^n (exact: only the binary point moves n places).
DMulPow2(x, n) ==
    IF x.k # "fin" THEN x
    ELSE LET f == x.frac \o [j \in 1..n |-> 0]
         IN  Fin(x.neg, x.int * Pow2(n) + BitsVal(SubSeq(f, 1, n)),
                 SubSeq(f, n + 1, Len(f)))

\* 1 - 0.frac for a fraction that is not zero (its last bit is a one).
Complement(frac) ==
    [j \in 1..Len(frac) |-> IF j = Len(frac) THEN 1 ELSE 1 - frac[j]]

\* The double x + c of a double and an integer-valued double.
DAddInt(x, c) ==
    IF x.k # "fin" THEN x
    ELSE IF c = 0 \/ (x.int = 0 /\ x.frac = <<>>) \/ (x.neg = (c < 0))
         THEN RoundMant(IF c = 0 THEN x.neg ELSE c < 0,
                        x.int + Abs(c), x.frac, FALSE, DBL_MANT_DIG)
         ELSE IF x.int >= Abs(c)
              THEN RoundMant(x.neg, x.int - Abs(c), x.frac, FALSE, DBL_MANT_DIG)
              ELSE IF x.frac = <<>>
                   THEN RoundMant(c < 0, Abs(c) - x.int, <<>>, FALSE, DBL_MANT_DIG)
                   ELSE RoundMant(c < 0, Abs(c) - x.int - 1, Complement(x.frac),
                                  FALSE, DBL_MANT_DIG)

\* The conversion of a double to float (the return type of the conversion).
ToFloat(x) ==
    IF x.k # "fin" THEN x
    ELSE RoundMant(x.neg, x.int, x.frac, FALSE, FLT_MANT_DIG)

\* The float of an integer constant.
IntToFloat(c) == RoundMant(c < 0, Abs(c), <<>>, FALSE, FLT_MANT_DIG)


(***************************************************************************)
(* lmt01.c: the calibration table and the conversion of a pulse count.     *)
(***************************************************************************)
CONV_TYPE_EQU == "CONV_TYPE_EQU"
CONV_TYPE_LUT == "CONV_TYPE_LUT"
lmt_conv_t == {CONV_TYPE_EQU, CONV_TYPE_LUT}

\* static const int16_t lut[21][2]: rows {temperature, pulses}.
lut == << <<-50, 26>>,   <<-40, 181>>,  <<-30, 338>>,  <<-20, 494>>,
          <<-10, 651>>,  <<0, 808>>,    <<10, 966>>,   <<20, 1125>>,
          <<30, 1284>>,  <<40, 1443>>,  <<50, 1602>>,  <<60, 1762>>,
          <<70, 1923>>,  <<80, 2084>>,  <<90, 2245>>,  <<100, 2407>>,
          <<110, 2569>>, <<120, 2731>>, <<130, 2893>>, <<140, 3057>>,
          <<150, 3218>> >>

\* LEN(lut)
LEN_lut == Len(lut)

\* What the int16_t slots behind the table may hold: reading lut[21] and
\* lut[22] is out of bounds, so the value read is whatever the build put there.
OobValues == {-1, 3300}
OobRows == [(LEN_lut..(LEN_lut + 1)) \X {0, 1} -> OobValues]

\* lut[i][j] as the C expression reads it (rows and columns from 0).
LutAt(i, j, oob) == IF i < LEN_lut THEN lut[i + 1][j + 1] ELSE oob[<<i, j>>]

\* pulses >= x and pulses <= x for the uint32_t pulses and an int16_t x: x is
\* converted to unsigned, so a negative x compares as a value above 2^32 - 2^15.
UGe(p, x) == IF x < 0 THEN FALSE ELSE p >= x
ULe(p, x) == IF x < 0 THEN TRUE ELSE p <= x

\* Brackets with the upper bound exclusive (pulses < lut[i + 1][1]).
Brackets_StrictUpper(p, i, oob) ==
    UGe(p, LutAt(i, 1, oob)) /\ ~UGe(p, LutAt(i + 1, 1, oob))

\* The test of the scan's if statement at row i (the && reads lut[i + 1]
\* only when its left operand holds).
Brackets(p, i, oob) == UGe(p, LutAt(i, 1, oob)) /\ ULe(p, LutAt(i + 1, 1, oob))

\* for (i = 0; i < LEN(lut); i++) if (...) break;  the value of i after it.
RECURSIVE Scan(_, _, _)
Scan(p, i, oob) ==
    IF i < LEN_lut
    THEN IF Brackets(p, i, oob) THEN i ELSE Scan(p, i + 1, oob)
    ELSE i

\* The rows of lut the scan from row 0 up to row last and the call of map read.
LutRows(p, last, oob) ==
    {i \in 0..last : i < LEN_lut}
      \cup {i + 1 : i \in {j \in 0..last : j < LEN_lut /\ UGe(p, LutAt(j, 1, oob))}}
      \cup {last, last + 1}

\* map with the two output bounds taken in the wrong order.
map_Reversed(val, in_min, in_max, out_min, out_max) ==
    DAddInt(DDiv((val - in_min) * (out_min - out_max), in_max - in_min), out_max)

\* static double map(val, in_min, in_max, out_min, out_max): the product of
\* the two differences is an integer below 2^53, hence exact in a double.
map(val, in_min, in_max, out_min, out_max) ==
    DAddInt(DDiv((val - in_min) * (out_max - out_min), in_max - in_min), out_min)

\* EquTemp with the division done on integers (pulses / 4096 * 256.0 - 50.0).
EquTemp_IntDiv(pulses) == DAddInt(DMulPow2(DDiv(pulses \div 4096, 1), 8), -50)

\* ((pulses / 4096.0) * 256.0) - 50.0, computed in double (256 = 2^8).
EquTemp(pulses) == DAddInt(DMulPow2(DDiv(pulses, 4096), 8), -50)

\* LutTemp with the scan started at row 1 (for (i = 1; ...)).
LutTemp_FromRow1(pulses, oob) ==
    LET i == Scan(pulses, 1, oob)
    IN  [i    |-> i,
         rows |-> LutRows(pulses, i, oob),
         temp |-> map(pulses, LutAt(i, 1, oob), LutAt(i + 1, 1, oob),
                              LutAt(i, 0, oob), LutAt(i + 1, 0, oob))]

\* The lookup-table branch: the row the scan stops at and the value of map.
LutTemp(pulses, oob) ==
    LET i == Scan(pulses, 0, oob)
    IN  [i    |-> i,
         rows |-> LutRows(pulses, i, oob),
         temp |-> map(pulses, LutAt(i, 1, oob), LutAt(i + 1, 1, oob),
                              LutAt(i, 0, oob), LutAt(i + 1, 0, oob))]

\* lmt_pulses_to_temperature with the two methods taken for one another.
lmt_pulses_to_temperature_Swapped(pulses, type, oob) ==
    IF pulses = 0
    THEN [temp |-> IntToFloat(-1), i |-> -1, rows |-> {}]
    ELSE IF type = CONV_TYPE_LUT
         THEN [temp |-> ToFloat(EquTemp(pulses)), i |-> -1, rows |-> {}]
         ELSE LET r == LutTemp(pulses, oob)
              IN  [temp |-> ToFloat(r.temp), i |-> r.i, rows |-> r.rows]

\* float lmt_pulses_to_temperature(uint32_t pulses, lmt_conv_t type): the
\* float returned, the row the scan chose (-1: no scan) and the rows read.
lmt_pulses_to_temperature(pulses, type, oob) ==
    IF pulses = 0
    THEN [temp |-> IntToFloat(-1), i |-> -1, rows |-> {}]
    ELSE IF type = CONV_TYPE_EQU
         THEN [temp |-> ToFloat(EquTemp(pulses)), i |-> -1, rows |-> {}]
         ELSE IF type = CONV_TYPE_LUT
              THEN LET r == LutTemp(pulses, oob)
                   IN  [temp |-> ToFloat(r.temp), i |-> r.i, rows |-> r.rows]
              ELSE [temp |-> IntToFloat(0), i |-> -1, rows |-> {}]

\* The contents of the slots behind the table that a conversion can depend
\* on: all of them, unless it reads no row outside the table whatever they hold.
OobChoices(pulses, type) ==
    LET any == CHOOSE oob \in OobRows : TRUE
    IN  IF lmt_pulses_to_temperature(pulses, type, any).rows \subseteq 0..(LEN_lut - 1)
        THEN {any}
        ELSE OobRows

(***************************************************************************)
(* lmt01.h: status codes and the device structure.                         *)
(***************************************************************************)
LMT_OK == "LMT_OK"
LMT_E_NULL_PTR == "LMT_E_NULL_PTR"
LMT_E_DEV_NOT_FOUND == "LMT_E_DEV_NOT_FOUND"
LMT_E_TIMEOUT == "LMT_E_TIMEOUT"
lmt_status_t == {LMT_OK, LMT_E_NULL_PTR, LMT_E_DEV_NOT_FOUND, LMT_E_TIMEOUT}

\* The five function pointers of lmt01_dev_t that null_ptr_check looks at.
DevOps == {"start_timer", "stop_timer", "set_timer_cnt", "get_timer_cnt", "delay_ms"}
\* A device argument: the NULL pointer, or a structure with the function
\* pointers ops set and the others NULL.
NULL == [null |-> TRUE, ops |-> {}]
Device(ops) == [null |-> FALSE, ops |-> ops]
DevArgs == {NULL, Device(DevOps)} \cup {Device(DevOps \ {m}) : m \in DevOps}

\* null_ptr_check with the test of delay_ms forgotten.
null_ptr_check_NoDelay(d) ==
    IF d.null \/ "start_timer" \notin d.ops \/ "stop_timer" \notin d.ops
         \/ "set_timer_cnt" \notin d.ops \/ "get_timer_cnt" \notin d.ops
    THEN "LMT_E_NULL_PTR"
    ELSE "LMT_OK"

\* static lmt_status_t null_ptr_check(const lmt01_dev *dev)
null_ptr_check(d) ==
    IF d.null \/ "start_timer" \notin d.ops \/ "stop_timer" \notin d.ops
         \/ "set_timer_cnt" \notin d.ops \/ "get_timer_cnt" \notin d.ops
         \/ "delay_ms" \notin d.ops
    THEN LMT_E_NULL_PTR
    ELSE LMT_OK

\* The window lengths (ms) the driver passes to count_pulses_ms.
PERIOD_INIT == 60
PERIOD_DRAIN == 10
PERIOD_MEASURE == 104

(***************************************************************************)
(* The callers, the timer behind the capability, and the sensor.           *)
(***************************************************************************)
Callers == {"A", "B"}
\* The caller of the single-caller specifications.
Solo == {"A"}

\* Pulses the sensor may deliver while a window's delay lasts.
PulseSamples == {0, 25, 784, 1762, 3219}
DrainSamples == {0, 25}
\* Probes of one call that are remembered (the oldest is dropped beyond it).
MaxTrace == MaxBusy + 2

VARIABLES
    pc,        \* where each caller is in the driver
    fn,        \* the public function each caller called last
    dev,       \* its device argument
    type,      \* its conversion type argument
    period,    \* the argument of the count_pulses_ms in progress
    count,     \* the value the last count_pulses_ms returned
    rslt,      \* the status returned to the caller ("pending" during a call)
    pulsesOut, \* the caller's variable behind lmt_get_pulse_count's pulses
    pulses,    \* lmt_get_temperature's local / the conversion's argument
    temp,      \* the caller's variable behind lmt_get_temperature's temp
    conv,      \* what the last lmt_pulses_to_temperature returned and read
    probes,    \* the windows of the call: <<period, count>> in order
    winLog,    \* the capability operations of the current window, in order
    running,   \* the timer counts pulses
    cnt,       \* the timer's count register
    sensor,    \* stuck: never idle; busy: 10 ms windows it may still fill
    before,    \* what the caller's output variables held when it called
    arrived    \* the pulses that arrived during the caller's last delay_ms

vars == <<pc, fn, dev, type, period, count, rslt, pulsesOut, pulses, temp, conv,
          probes, winLog, running, cnt, sensor, before, arrived>>

\* What the variables a caller passes for the outputs (uint32_t *pulses,
\* float *temp) may hold at the call: zeroes, or values of an earlier use.
Cleared == [pulses |-> 0, temp |-> IntToFloat(0)]
CallerValues == {Cleared, [pulses |-> 7, temp |-> IntToFloat(1)]}

NoConv == [temp |-> IntToFloat(0), i |-> -1, rows |-> {}]

Record(tr, e) == IF Len(tr) < MaxTrace THEN Append(tr, e) ELSE Append(Tail(tr), e)

InitCallers ==
    /\ pc = [c \in Callers |-> "idle"]
    /\ fn = [c \in Callers |-> "none"]
    /\ dev = [c \in Callers |-> NULL]
    /\ type = [c \in Callers |-> CONV_TYPE_EQU]
    /\ period = [c \in Callers |-> 0]
    /\ count = [c \in Callers |-> 0]
    /\ rslt = [c \in Callers |-> "pending"]
    /\ pulsesOut = [c \in Callers |-> 0]
    /\ pulses = [c \in Callers |-> 0]
    /\ temp = [c \in Callers |-> IntToFloat(0)]
    /\ conv = [c \in Callers |-> NoConv]
    /\ probes = [c \in Callers |-> <<>>]
    /\ winLog = [c \in Callers |-> <<>>]
    /\ before = [c \in Callers |-> Cleared]
    /\ arrived = [c \in Callers |-> 0]

\* The conditions the sensor can be in when a reading begins: stuck in its
\* output for good, or about to idle after at most MaxBusy more busy windows.
SensorStates == {[stuck |-> TRUE, busy |-> 0]}
                  \cup {[stuck |-> FALSE, busy |-> b] : b \in 0..MaxBusy}

\* Before the first call the timer is in whatever state its owner left it in.
Init ==
    /\ InitCallers
    /\ running \in BOOLEAN
    /\ cnt \in DrainSamples
    /\ sensor = [stuck |-> FALSE, busy |-> 0]

\* A caller enters public function f with device d and conversion type t;
\* the output variables of lmt_get_pulse_count and lmt_get_temperature hold
\* what the caller left in them.
Enter(c, f, d, t) ==
    /\ pc[c] \in {"idle", "done"}
    /\ fn' = [fn EXCEPT ![c] = f]
    /\ dev' = [dev EXCEPT ![c] = d]
    /\ type' = [type EXCEPT ![c] = t]
    /\ rslt' = [rslt EXCEPT ![c] = "pending"]
    /\ probes' = [probes EXCEPT ![c] = <<>>]
    /\ winLog' = [winLog EXCEPT ![c] = <<>>]
    /\ conv' = [conv EXCEPT ![c] = NoConv]
    /\ period' = [period EXCEPT ![c] = 0]
    /\ count' = [count EXCEPT ![c] = 0]
    /\ \E b \in (IF f \in {"lmt_get_pulse_count", "lmt_get_temperature"}
                THEN CallerValues ELSE {Cleared}) :
          /\ before' = [before EXCEPT ![c] = b]
          /\ pulsesOut' = [pulsesOut EXCEPT ![c] = b.pulses]
          /\ temp' = [temp EXCEPT ![c] = b.temp]
    /\ arrived' = [arrived EXCEPT ![c] = 0]
    /\ UNCHANGED <<running, cnt>>

\* lmt_init(dev) is called.
CallInit(c) ==
    /\ \E d \in DevArgs : Enter(c, "lmt_init", d, CONV_TYPE_EQU)
    /\ pc' = [pc EXCEPT ![c] = "check"]
    /\ pulses' = [pulses EXCEPT ![c] = 0]
    /\ UNCHANGED sensor

\* lmt_get_pulse_count(dev, &pulsesOut) is called.
CallGetPulseCount(c) ==
    /\ \E d \in DevArgs : Enter(c, "lmt_get_pulse_count", d, CONV_TYPE_EQU)
    /\ pc' = [pc EXCEPT ![c] = "check"]
    /\ pulses' = [pulses EXCEPT ![c] = 0]
    /\ sensor' \in SensorStates

\* lmt_get_temperature(dev, &temp, type) is called; it calls
\* lmt_get_pulse_count(dev, &pulses) at once.
CallGetTemperature(c) ==
    /\ \E d \in DevArgs, t \in lmt_conv_t : Enter(c, "lmt_get_temperature", d, t)
    /\ pc' = [pc EXCEPT ![c] = "check"]
    /\ pulses' = [pulses EXCEPT ![c] = 0]
    /\ sensor' \in SensorStates

\* lmt_pulses_to_temperature(pulses, type) is called on its own.
CallPulsesToTemperature(c) ==
    /\ \E t \in lmt_conv_t : Enter(c, "lmt_pulses_to_temperature", NULL, t)
    /\ \E p \in PulseSamples : pulses' = [pulses EXCEPT ![c] = p]
    /\ pc' = [pc EXCEPT ![c] = "convert"]
    /\ UNCHANGED sensor

\* Where a public function goes when lmt_get_pulse_count / lmt_init returns.
Returned(c) == IF fn[c] = "lmt_get_temperature" THEN "gt_check" ELSE "done"

\* if (null_ptr_check(dev) != LMT_OK) return LMT_E_NULL_PTR;  else the first
\* count_pulses_ms of the function begins.
NullPtrCheck(c) ==
    /\ pc[c] = "check"
    /\ IF null_ptr_check(dev[c]) # LMT_OK
       THEN /\ rslt' = [rslt EXCEPT ![c] = LMT_E_NULL_PTR]
            /\ pc' = [pc EXCEPT ![c] = Returned(c)]
            /\ UNCHANGED period
       ELSE /\ period' = [period EXCEPT ![c] =
                            IF fn[c] = "lmt_init" THEN PERIOD_INIT ELSE PERIOD_DRAIN]
            /\ pc' = [pc EXCEPT ![c] = "stop"]
            /\ UNCHANGED rslt
    /\ UNCHANGED <<fn, dev, type, count, pulsesOut, pulses, temp, conv, probes,
                   winLog, running, cnt, sensor, before, arrived>>

(***************************************************************************)
(* count_pulses_ms(dev, period), one capability call per step.             *)
(***************************************************************************)
\* A step of count_pulses_ms that calls capability operation op and goes on.
CapStep(c, from, op, to) ==
    /\ pc[c] = from
    /\ pc' = [pc EXCEPT ![c] = to]
    /\ winLog' = [winLog EXCEPT ![c] = IF from = "stop" THEN <<op>> ELSE Append(@, op)]
    /\ UNCHANGED <<fn, dev, type, period, rslt, pulsesOut, pulses, temp, conv, sensor,
                   before, arrived>>

\* dev->stop_timer(dev->timer);
StopTimer(c) ==
    /\ CapStep(c, "stop", "stop_timer", "set")
    /\ running' = FALSE
    /\ UNCHANGED <<cnt, count, probes>>

\* count_pulses_ms without its set_timer_cnt call.
SetTimerCnt_Omitted(c) ==
    /\ pc[c] = "set"
    /\ pc' = [pc EXCEPT ![c] = "start"]
    /\ UNCHANGED <<fn, dev, type, period, count, rslt, pulsesOut, pulses, temp, conv,
                   probes, winLog, running, cnt, sensor, before, arrived>>

\* dev->set_timer_cnt(dev->timer, 0);  taken as lmt01.c uses it, to set the
\* count to 0 (lmt01.h types the second argument as a pointer to the count).
SetTimerCnt(c) ==
    /\ CapStep(c, "set", "set_timer_cnt", "start")
    /\ cnt' = 0
    /\ UNCHANGED <<running, count, probes>>

\* count_pulses_ms without its start_timer call.
StartTimer_Omitted(c) ==
    /\ pc[c] = "start"
    /\ pc' = [pc EXCEPT ![c] = "delay"]
    /\ UNCHANGED <<fn, dev, type, period, count, rslt, pulsesOut, pulses, temp, conv,
                   probes, winLog, running, cnt, sensor, before, arrived>>

\* dev->start_timer(dev->timer);
StartTimer(c) ==
    /\ CapStep(c, "start", "start_timer", "delay")
    /\ running' = TRUE
    /\ UNCHANGED <<cnt, count, probes>>

\* The pulses k a window of the given period may see: a stuck sensor fills
\* every 10 ms window, any other fills at most sensor.busy more of them.
SensorAllows(k, per) ==
    per = PERIOD_DRAIN =>
        /\ k \in DrainSamples
        /\ sensor.stuck => k # 0
        /\ (~sensor.stuck /\ sensor.busy = 0) => k = 0

\* dev->delay_ms(period);  the timer counts the pulses that arrive meanwhile.
DelayMs(c) ==
    /\ pc[c] = "delay"
    /\ \E k \in PulseSamples :
          /\ SensorAllows(k, period[c])
          /\ cnt' = IF running THEN cnt + k ELSE cnt
          /\ arrived' = [arrived EXCEPT ![c] = k]
          /\ sensor' = IF period[c] = PERIOD_DRAIN /\ k # 0 /\ ~sensor.stuck
                       THEN [sensor EXCEPT !.busy = @ - 1]
                       ELSE sensor
    /\ pc' = [pc EXCEPT ![c] = "stop2"]
    /\ winLog' = [winLog EXCEPT ![c] = Append(@, "delay_ms")]
    /\ UNCHANGED <<fn, dev, type, period, count, rslt, pulsesOut, pulses, temp,
                   conv, probes, running, before>>

\* count_pulses_ms without its second stop_timer call.
StopTimerAgain_Omitted(c) ==
    /\ pc[c] = "stop2"
    /\ pc' = [pc EXCEPT ![c] = "get"]
    /\ UNCHANGED <<fn, dev, type, period, count, rslt, pulsesOut, pulses, temp, conv,
                   probes, winLog, running, cnt, sensor, before, arrived>>

\* dev->stop_timer(dev->timer);  the second one
StopTimerAgain(c) ==
    /\ CapStep(c, "stop2", "stop_timer", "get")
    /\ running' = FALSE
    /\ UNCHANGED <<cnt, count, probes>>

\* return dev->get_timer_cnt(dev->timer);  taken as lmt01.c uses it, to return
\* the count (lmt01.h types it as void, with the count behind a pointer).
GetTimerCnt(c) ==
    /\ CapStep(c, "get", "get_timer_cnt", "counted")
    /\ count' = [count EXCEPT ![c] = cnt]
    /\ probes' = [probes EXCEPT ![c] = Record(@, <<period[c], cnt>>)]
    /\ UNCHANGED <<running, cnt>>

(***************************************************************************)
(* What the public functions do with the count of a window.                *)
(***************************************************************************)
\* InitResult with the test of the count left out: always LMT_OK.
InitResult_AlwaysOk(c) ==
    /\ pc[c] = "counted"
    /\ fn[c] = "lmt_init"
    /\ rslt' = [rslt EXCEPT ![c] = LMT_OK]
    /\ pc' = [pc EXCEPT ![c] = "done"]
    /\ UNCHANGED <<fn, dev, type, period, count, pulsesOut, pulses, temp, conv,
                   probes, winLog, running, cnt, sensor, before, arrived>>

\* lmt_init: if (pulses == 0) return LMT_E_DEV_NOT_FOUND; return LMT_OK;
InitResult(c) ==
    /\ pc[c] = "counted"
    /\ fn[c] = "lmt_init"
    /\ rslt' = [rslt EXCEPT ![c] = IF count[c] = 0 THEN LMT_E_DEV_NOT_FOUND ELSE LMT_OK]
    /\ pc' = [pc EXCEPT ![c] = "done"]
    /\ UNCHANGED <<fn, dev, type, period, count, pulsesOut, pulses, temp, conv,
                   probes, winLog, running, cnt, sensor, before, arrived>>

\* DrainLoop as an if instead of a while: one 10 ms probe, whatever it counts.
DrainLoop_IfNotWhile(c) ==
    /\ pc[c] = "counted"
    /\ fn[c] # "lmt_init"
    /\ period[c] = PERIOD_DRAIN
    /\ period' = [period EXCEPT ![c] = PERIOD_MEASURE]
    /\ pc' = [pc EXCEPT ![c] = "stop"]
    /\ UNCHANGED <<fn, dev, type, count, rslt, pulsesOut, pulses, temp, conv,
                   probes, winLog, running, cnt, sensor, before, arrived>>

\* DrainLoop with the test inverted: while (count_pulses_ms(dev, 10) == 0);
DrainLoop_Inverted(c) ==
    /\ pc[c] = "counted"
    /\ fn[c] # "lmt_init"
    /\ period[c] = PERIOD_DRAIN
    /\ period' = [period EXCEPT ![c] = IF count[c] = 0 THEN PERIOD_DRAIN ELSE PERIOD_MEASURE]
    /\ pc' = [pc EXCEPT ![c] = "stop"]
    /\ UNCHANGED <<fn, dev, type, count, rslt, pulsesOut, pulses, temp, conv,
                   probes, winLog, running, cnt, sensor, before, arrived>>

\* lmt_get_pulse_count: while (count_pulses_ms(dev, 10) != 0);  then
\* count_pulses_ms(dev, 104) begins.
DrainLoop(c) ==
    /\ pc[c] = "counted"
    /\ fn[c] # "lmt_init"
    /\ period[c] = PERIOD_DRAIN
    /\ period' = [period EXCEPT ![c] = IF count[c] # 0 THEN PERIOD_DRAIN ELSE PERIOD_MEASURE]
    /\ pc' = [pc EXCEPT ![c] = "stop"]
    /\ UNCHANGED <<fn, dev, type, count, rslt, pulsesOut, pulses, temp, conv,
                   probes, winLog, running, cnt, sensor, before, arrived>>

\* MeasureResult with the test of a zero count left out.
MeasureResult_NoCheck(c) ==
    /\ pc[c] = "counted"
    /\ fn[c] # "lmt_init"
    /\ period[c] = PERIOD_MEASURE
    /\ rslt' = [rslt EXCEPT ![c] = LMT_OK]
    /\ IF fn[c] = "lmt_get_temperature"
       THEN pulses' = [pulses EXCEPT ![c] = count[c]] /\ UNCHANGED pulsesOut
       ELSE pulsesOut' = [pulsesOut EXCEPT ![c] = count[c]] /\ UNCHANGED pulses
    /\ pc' = [pc EXCEPT ![c] = Returned(c)]
    /\ UNCHANGED <<fn, dev, type, period, count, temp, conv, probes, winLog,
                   running, cnt, sensor, before, arrived>>

\* MeasureResult with the count stored before it is tested.
MeasureResult_StoreFirst(c) ==
    /\ pc[c] = "counted"
    /\ fn[c] # "lmt_init"
    /\ period[c] = PERIOD_MEASURE
    /\ IF count[c] = 0
       THEN rslt' = [rslt EXCEPT ![c] = LMT_E_DEV_NOT_FOUND]
       ELSE rslt' = [rslt EXCEPT ![c] = LMT_OK]
    /\ IF fn[c] = "lmt_get_temperature"
       THEN pulses' = [pulses EXCEPT ![c] = count[c]] /\ UNCHANGED pulsesOut
       ELSE pulsesOut' = [pulsesOut EXCEPT ![c] = count[c]] /\ UNCHANGED pulses
    /\ pc' = [pc EXCEPT ![c] = Returned(c)]
    /\ UNCHANGED <<fn, dev, type, period, count, temp, conv, probes, winLog,
                   running, cnt, sensor, before, arrived>>

\* lmt_get_pulse_count: if (pulse_count == 0) return LMT_E_DEV_NOT_FOUND;
\* *pulses = pulse_count; return LMT_OK;
MeasureResult(c) ==
    /\ pc[c] = "counted"
    /\ fn[c] # "lmt_init"
    /\ period[c] = PERIOD_MEASURE
    /\ IF count[c] = 0
       THEN /\ rslt' = [rslt EXCEPT ![c] = LMT_E_DEV_NOT_FOUND]
            /\ UNCHANGED <<pulsesOut, pulses>>
       ELSE /\ rslt' = [rslt EXCEPT ![c] = LMT_OK]
            /\ IF fn[c] = "lmt_get_temperature"
               THEN pulses' = [pulses EXCEPT ![c] = count[c]] /\ UNCHANGED pulsesOut
               ELSE pulsesOut' = [pulsesOut EXCEPT ![c] = count[c]] /\ UNCHANGED pulses
    /\ pc' = [pc EXCEPT ![c] = Returned(c)]
    /\ UNCHANGED <<fn, dev, type, period, count, temp, conv, probes, winLog,
                   running, cnt, sensor, before, arrived>>

\* lmt_get_temperature: if (rslt != LMT_OK) return rslt;
GetTemperatureCheck(c) ==
    /\ pc[c] = "gt_check"
    /\ pc' = [pc EXCEPT ![c] = IF rslt[c] # LMT_OK THEN "done" ELSE "convert"]
    /\ UNCHANGED <<fn, dev, type, period, count, rslt, pulsesOut, pulses, temp, conv,
                   probes, winLog, running, cnt, sensor, before, arrived>>

\* lmt_pulses_to_temperature(pulses, type) runs, on its own or as
\* *temp = lmt_pulses_to_temperature(pulses, type); return LMT_OK;
PulsesToTemperature(c) ==
    /\ pc[c] = "convert"
    /\ \E oob \in OobChoices(pulses[c], type[c]) :
          LET r == lmt_pulses_to_temperature(pulses[c], type[c], oob)
          IN  /\ conv' = [conv EXCEPT ![c] = r]
              /\ IF fn[c] = "lmt_get_temperature"
                 THEN /\ temp' = [temp EXCEPT ![c] = r.temp]
                      /\ rslt' = [rslt EXCEPT ![c] = LMT_OK]
                 ELSE UNCHANGED <<temp, rslt>>
    /\ pc' = [pc EXCEPT ![c] = "done"]
    /\ UNCHANGED <<fn, dev, type, period, count, pulsesOut, pulses, probes, winLog,
                   running, cnt, sensor, before, arrived>>

(***************************************************************************)
(* Specifications.                                                         *)
(***************************************************************************)
\* The steps of an acquisition (lmt_init, lmt_get_pulse_count): once called,
\* the driver and the capability's operations run on without waiting for anyone.
Acquire(c) ==
    \/ NullPtrCheck(c)
    \/ StopTimer(c)
    \/ SetTimerCnt(c)
    \/ StartTimer(c)
    \/ DelayMs(c)
    \/ StopTimerAgain(c)
    \/ GetTimerCnt(c)
    \/ InitResult(c)
    \/ DrainLoop(c)
    \/ MeasureResult(c)
    \/ GetTemperatureCheck(c)

Next ==
    \E c \in Solo :
        \/ CallInit(c)
        \/ CallGetPulseCount(c)
        \/ CallGetTemperature(c)
        \/ CallPulsesToTemperature(c)
        \/ Acquire(c)
        \/ PulsesToTemperature(c)

\* One caller using the driver, call after call.
Spec == Init /\ [][Next]_vars

\* The same, with an acquisition, once called, always going on: the driver is
\* straight-line blocking code and every capability operation returns.
FairSpec == Spec /\ \A c \in Solo : WF_vars(Acquire(c))

\* The conversion function alone, on every pulse count up to MaxPulses.
InitConv ==
    /\ pc = [c \in Callers |-> IF c \in Solo THEN "convert" ELSE "idle"]
    /\ fn = [c \in Callers |-> IF c \in Solo THEN "lmt_pulses_to_temperature" ELSE "none"]
    /\ dev = [c \in Callers |-> NULL]
    /\ \E t \in lmt_conv_t : type = [c \in Callers |-> IF c \in Solo THEN t ELSE CONV_TYPE_EQU]
    /\ period = [c \in Callers |-> 0]
    /\ count = [c \in Callers |-> 0]
    /\ rslt = [c \in Callers |-> "pending"]
    /\ pulsesOut = [c \in Callers |-> 0]
    /\ \E p \in 0..MaxPulses : pulses = [c \in Callers |-> IF c \in Solo THEN p ELSE 0]
    /\ temp = [c \in Callers |-> IntToFloat(0)]
    /\ conv = [c \in Callers |-> NoConv]
    /\ probes = [c \in Callers |-> <<>>]
    /\ winLog = [c \in Callers |-> <<>>]
    /\ before = [c \in Callers |-> Cleared]
    /\ arrived = [c \in Callers |-> 0]
    /\ running = FALSE
    /\ cnt = 0
    /\ sensor = [stuck |-> FALSE, busy |-> 0]

NextConv == \E c \in Solo : PulsesToTemperature(c)

SpecConv == InitConv /\ [][NextConv]_vars

\* count_pulses_ms(dev, period): the capability operations of one window.
CountPulsesMs(c) ==
    \/ StopTimer(c)
    \/ SetTimerCnt(c)
    \/ StartTimer(c)
    \/ DelayMs(c)
    \/ StopTimerAgain(c)
    \/ GetTimerCnt(c)

\* Acquisition f (lmt_init or lmt_get_pulse_count) is called with a complete
\* capability while the sensor is idle.
CallAcquisition(c, f) ==
    /\ Enter(c, f, Device(DevOps), CONV_TYPE_EQU)
    /\ pc' = [pc EXCEPT ![c] = "check"]
    /\ pulses' = [pulses EXCEPT ![c] = 0]
    /\ UNCHANGED sensor

\* Two callers on the same timer with nothing to keep them apart: the steps
\* of their windows interleave in any order.  Every caller may run lmt_init,
\* and the first one lmt_get_pulse_count as well.
NextConc ==
    \/ \E c \in Callers :
          \/ CallAcquisition(c, "lmt_init")
          \/ NullPtrCheck(c)
          \/ CountPulsesMs(c)
          \/ InitResult(c)
    \/ \E c \in Solo :
          \/ CallAcquisition(c, "lmt_get_pulse_count")
          \/ DrainLoop(c)
          \/ MeasureResult(c)

SpecConc == Init /\ [][NextConc]_vars

(***************************************************************************)
(* Vocabulary of the properties.                                           *)
(***************************************************************************)
\* The capability is complete: a device with all five operations.
Complete(d) == ~d.null /\ d.ops = DevOps

\* The caller's call runs lmt_get_pulse_count (directly or within
\* lmt_get_temperature).
InGetPulseCount(c) == fn[c] \in {"lmt_get_pulse_count", "lmt_get_temperature"}

\* The places of count_pulses_ms, i.e. a sampling window is in progress.
WindowPcs == {"stop", "set", "start", "delay", "stop2", "get"}

\* lmt_get_pulse_count has returned, and has just returned.
GpcReturned(c) == InGetPulseCount(c) /\ pc[c] \in {"gt_check", "convert", "done"}
GpcJustReturned(c) ==
    \/ fn[c] = "lmt_get_pulse_count" /\ pc[c] = "done"
    \/ fn[c] = "lmt_get_temperature" /\ pc[c] = "gt_check"

\* lmt_get_pulse_count is running on a complete capability.
GpcRunning(c) == InGetPulseCount(c) /\ Complete(dev[c]) /\ ~GpcReturned(c)

\* The variable lmt_get_pulse_count stores the count in.
GpcOut(c) == IF fn[c] = "lmt_get_temperature" THEN pulses[c] ELSE pulsesOut[c]

Last(tr) == tr[Len(tr)]

(***************************************************************************)
(* C1.  Windows of lmt_get_pulse_count.                                    *)
(***************************************************************************)
\* The windows so far are 10 ms windows that counted pulses, then at most one
\* 10 ms window that counted none, then at most one 104 ms window right
\* after it, and nothing else.
C1_Shape(tr) ==
    \A j \in 1..Len(tr) :
        /\ tr[j][1] \in {10, 104}
        /\ tr[j][1] = 104 => j = Len(tr) /\ j > 1 /\ tr[j - 1] = <<10, 0>>
        /\ tr[j] = <<10, 0>> =>
              \/ j = Len(tr)
              \/ j = Len(tr) - 1 /\ Last(tr)[1] = 104

\* C1: in every lmt_get_pulse_count on a complete capability the sampling
\* windows are zero or more 10 ms probes that counted pulses, then exactly one
\* 10 ms probe that counted zero, then exactly one 104 ms probe, the last one;
\* a 104 ms probe starts only right after a 10 ms probe that counted zero, and
\* no window of another length occurs.
C1_WindowSequence ==
    \A c \in Solo :
        (InGetPulseCount(c) /\ Complete(dev[c])) =>
            /\ C1_Shape(probes[c])
            /\ pc[c] \in WindowPcs =>
                  /\ period[c] \in {10, 104}
                  /\ period[c] = 104 => probes[c] # <<>> /\ Last(probes[c]) = <<10, 0>>
                  /\ period[c] = 10 =>
                        \/ probes[c] = <<>>
                        \/ Last(probes[c])[1] = 10 /\ Last(probes[c])[2] # 0
            /\ GpcReturned(c) =>
                  /\ Len(probes[c]) >= 2
                  /\ Last(probes[c])[1] = 104
                  /\ probes[c][Len(probes[c]) - 1] = <<10, 0>>

\* A call that returned after two busy 10 ms probes, an idle one and the
\* measurement.
C1_Witness ==
    /\ fn["A"] = "lmt_get_pulse_count"
    /\ pc["A"] = "done"
    /\ probes["A"] = << <<10, 25>>, <<10, 25>>, <<10, 0>>, <<104, 1762>> >>

(***************************************************************************)
(* C2.  The result of lmt_get_pulse_count.                                 *)
(***************************************************************************)
\* C2: lmt_get_pulse_count on a complete capability returns
\* LMT_E_DEV_NOT_FOUND iff its 104 ms probe counted zero, and otherwise
\* LMT_OK with exactly that probe's count stored, which is never zero; when
\* every probe counted zero it fails after exactly one 10 ms and one 104 ms
\* probe.
C2_MeasureResult ==
    \A c \in Solo :
        (GpcJustReturned(c) /\ Complete(dev[c])) =>
            /\ probes[c] # <<>>
            /\ Last(probes[c])[1] = 104
            /\ {j \in 1..Len(probes[c]) : probes[c][j][1] = 104} = {Len(probes[c])}
            /\ rslt[c] = LMT_E_DEV_NOT_FOUND <=> Last(probes[c])[2] = 0
            /\ Last(probes[c])[2] # 0 =>
                  /\ rslt[c] = LMT_OK
                  /\ GpcOut(c) = Last(probes[c])[2]
                  /\ GpcOut(c) # 0
            /\ (\A j \in 1..Len(probes[c]) : probes[c][j][2] = 0) =>
                  /\ probes[c] = << <<10, 0>>, <<104, 0>> >>
                  /\ rslt[c] = LMT_E_DEV_NOT_FOUND

\* The timer never counted anything: one 10 ms probe, one 104 ms probe, failure.
C2_Witness ==
    /\ fn["A"] = "lmt_get_pulse_count"
    /\ pc["A"] = "done"
    /\ Complete(dev["A"])
    /\ probes["A"] = << <<10, 0>>, <<104, 0>> >>
    /\ rslt["A"] = LMT_E_DEV_NOT_FOUND

(***************************************************************************)
(* C3, C4.  The drain loop has no bound.                                   *)
(***************************************************************************)
C3_Safe(c) ==
    (InGetPulseCount(c) /\ Complete(dev[c])) =>
        /\ sensor.stuck => ~GpcReturned(c)
        /\ GpcReturned(c) => \E j \in 1..Len(probes[c]) : probes[c][j] = <<10, 0>>

\* C3: the drain phase has no timeout.  lmt_get_pulse_count returns only after
\* a 10 ms probe counted zero; if the sensor idles for some 10 ms window the
\* call eventually returns; if every 10 ms probe counts pulses it never
\* returns and goes on issuing 10 ms probes for ever.
C3_DrainUnbounded ==
    /\ [](\A c \in Solo : C3_Safe(c))
    /\ \A c \in Solo : (GpcRunning(c) /\ ~sensor.stuck) ~> GpcReturned(c)
    /\ \A c \in Solo :
          (GpcRunning(c) /\ sensor.stuck) ~> (pc[c] = "delay" /\ period[c] = 10)

\* A stuck sensor: as many busy 10 ms probes as are remembered, and still
\* draining.
C3_Witness ==
    /\ sensor.stuck
    /\ GpcRunning("A")
    /\ Len(probes["A"]) = MaxTrace
    /\ \A j \in 1..Len(probes["A"]) : probes["A"][j] = <<10, 25>>
    /\ pc["A"] = "delay"

\* C4: every lmt_get_pulse_count on a complete capability returns after a
\* bounded number of drain probes (with LMT_E_TIMEOUT when they keep counting
\* pulses).
C4_DrainTimesOut ==
    \A c \in Solo :
        (InGetPulseCount(c) /\ Complete(dev[c]) /\ pc[c] = "check") ~> GpcReturned(c)

(***************************************************************************)
(* C5, C6.  lmt_init and the validation of the capability.                 *)
(***************************************************************************)
\* C5: with the device absent or any of the five operations absent, lmt_init
\* (and likewise lmt_get_pulse_count and lmt_get_temperature) returns
\* LMT_E_NULL_PTR and calls no capability operation at all.
C5_MissingCapability ==
    \A c \in Solo :
        (fn[c] \in {"lmt_init", "lmt_get_pulse_count", "lmt_get_temperature"}
           /\ ~Complete(dev[c])) =>
            /\ pc[c] \in {"check", "gt_check", "done"}
            /\ pc[c] # "check" => rslt[c] = LMT_E_NULL_PTR
            /\ winLog[c] = <<>>
            /\ probes[c] = <<>>

\* lmt_init returned LMT_E_NULL_PTR for a device that lacks only delay_ms.
C5_Witness ==
    /\ fn["A"] = "lmt_init"
    /\ pc["A"] = "done"
    /\ ~dev["A"].null
    /\ dev["A"].ops = DevOps \ {"delay_ms"}
    /\ rslt["A"] = LMT_E_NULL_PTR
    /\ winLog["A"] = <<>>

\* C6: lmt_init on a complete capability performs exactly one sampling
\* window, of 60 ms, and returns LMT_E_DEV_NOT_FOUND iff that window counted
\* zero, LMT_OK otherwise.
C6_InitProbe ==
    \A c \in Solo :
        (fn[c] = "lmt_init" /\ Complete(dev[c])) =>
            /\ pc[c] \in WindowPcs => period[c] = 60 /\ probes[c] = <<>>
            /\ pc[c] \in {"counted", "done"} =>
                  /\ Len(probes[c]) = 1
                  /\ probes[c][1][1] = 60
            /\ pc[c] = "done" =>
                  /\ rslt[c] = LMT_E_DEV_NOT_FOUND <=> probes[c][1][2] = 0
                  /\ probes[c][1][2] # 0 => rslt[c] = LMT_OK

\* The timer counted nothing in the 60 ms window: lmt_init reports no device.
C6_Witness ==
    /\ fn["A"] = "lmt_init"
    /\ pc["A"] = "done"
    /\ Complete(dev["A"])
    /\ probes["A"] = << <<60, 0>> >>
    /\ rslt["A"] = LMT_E_DEV_NOT_FOUND

(***************************************************************************)
(* C7 - C10.  lmt_pulses_to_temperature.                                   *)
(***************************************************************************)
\* The conversion of the caller has returned.
Converted(c) == fn[c] = "lmt_pulses_to_temperature" /\ pc[c] = "done"

\* What the conversion returns for a pulse count of zero.
ZeroOutcome(t) == lmt_pulses_to_temperature(0, t, CHOOSE oob \in OobRows : TRUE).temp

\* C7: for both methods the outcome of a conversion of pulse count 0 differs
\* from the result of every conversion of a pulse count in [1, 4095].
C7_ZeroOutcomeDistinct ==
    \A c \in Solo :
        (Converted(c) /\ pulses[c] \in 1..4095) => conv[c].temp # ZeroOutcome(type[c])

\* Sixteen times a finite value that is a whole number of sixteenths.
Sixteenths(x) ==
    (IF x.neg THEN -1 ELSE 1)
      * (16 * x.int + BitsVal(SubSeq(x.frac \o <<0, 0, 0, 0>>, 1, 4)))

\* C8: for every pulse count p in [1, 4095] the Equation conversion returns
\* (p / 4096) * 256 - 50 exactly: a float t with 16 * t = p - 800.
C8_EquationExact ==
    \A c \in Solo :
        (Converted(c) /\ type[c] = CONV_TYPE_EQU /\ pulses[c] \in 1..4095) =>
            /\ conv[c].temp.k = "fin"
            /\ Len(conv[c].temp.frac) <= 4
            /\ Sixteenths(conv[c].temp) = pulses[c] - 800

\* 4095 pulses convert to 205.9375 = 3295 / 16.
C8_Witness ==
    /\ Converted("A")
    /\ type["A"] = CONV_TYPE_EQU
    /\ pulses["A"] = 4095
    /\ conv["A"].temp = [k |-> "fin", neg |-> FALSE, int |-> 205, frac |-> <<1, 1, 1, 1>>]

\* The float nearest to the rational n / d (ties to even), d > 0.
NearestFloat(n, d) ==
    LET I    == Abs(n) \div d
        R    == Abs(n) % d
        need == IF R = 0 THEN 0
                ELSE (IF I > 0 THEN 24 - BitLen(I) ELSE LeadZeros(R, d) + 24) + 1
    IN  RoundMant(n < 0, I, FracDigits(R, d, need), FracRem(R, d, need) # 0, 24)

\* The anchor pairs (rows i and i + 1 of the table, from 0) that bracket p.
C9_Pairs(p) == {i \in 0..19 : lut[i + 1][2] <= p /\ p <= lut[i + 2][2]}

\* C9: for every pulse count p in [26, 3218] the LookupTable conversion
\* selects the smallest i with c[i].pulses <= p <= c[i+1].pulses and returns
\* c[i].temp + (p - c[i].pulses) * (c[i+1].temp - c[i].temp)
\*               / (c[i+1].pulses - c[i].pulses), as the nearest float.
C9_LutInterpolation ==
    \A c \in Solo :
        (Converted(c) /\ type[c] = CONV_TYPE_LUT /\ pulses[c] \in 26..3218) =>
            /\ C9_Pairs(pulses[c]) # {}
            /\ LET p  == pulses[c]
                   i  == CHOOSE x \in C9_Pairs(p) : \A y \in C9_Pairs(p) : x <= y
                   lo == lut[i + 1]
                   hi == lut[i + 2]
               IN  /\ conv[c].i = i
                   /\ conv[c].temp =
                        NearestFloat(lo[1] * (hi[2] - lo[2]) + (p - lo[2]) * (hi[1] - lo[1]),
                                     hi[2] - lo[2])

\* 181 pulses, an interior anchor, resolve to the pair (26, 181): -40.
C9_Witness ==
    /\ Converted("A")
    /\ type["A"] = CONV_TYPE_LUT
    /\ pulses["A"] = 181
    /\ conv["A"].i = 0
    /\ conv["A"].temp = [k |-> "fin", neg |-> TRUE, int |-> 40, frac |-> <<>>]

\* C10: the LookupTable conversion is exact at each of the 21 anchors, the
\* first (26 pulses) and the last (3218 pulses) included: the conversion of
\* c[i].pulses is c[i].temp.
C10_AnchorsExact ==
    /\ Len(lut) = 21 /\ lut[1][2] = 26 /\ lut[21][2] = 3218
    /\ \A c \in Solo :
          (Converted(c) /\ type[c] = CONV_TYPE_LUT) =>
              \A j \in 1..21 :
                  pulses[c] = lut[j][2] =>
                      /\ conv[c].temp.k = "fin"
                      /\ conv[c].temp.frac = <<>>
                      /\ (IF conv[c].temp.neg THEN -1 ELSE 1) * conv[c].temp.int = lut[j][1]

\* The last anchor: 3218 pulses convert to 150.
C10_Witness ==
    /\ Converted("A")
    /\ type["A"] = CONV_TYPE_LUT
    /\ pulses["A"] = 3218
    /\ conv["A"].temp = [k |-> "fin", neg |-> FALSE, int |-> 150, frac |-> <<>>]

(***************************************************************************)
(* C11.  The lookup-table conversion never decreases within a segment.     *)
(***************************************************************************)
\* a < b for two fraction bit sequences (most significant bit first).
FracLess(a, b) ==
    LET n  == IF Len(a) > Len(b) THEN Len(a) ELSE Len(b)
        pa == [j \in 1..n |-> IF j <= Len(a) THEN a[j] ELSE 0]
        pb == [j \in 1..n |-> IF j <= Len(b) THEN b[j] ELSE 0]
        D  == {j \in 1..n : pa[j] # pb[j]}
    IN  D # {} /\ pa[CHOOSE j \in D : \A k \in D : j <= k] = 0

\* |x| <= |y| for finite values.
MagLe(x, y) ==
    \/ x.int < y.int
    \/ x.int = y.int /\ (x.frac = y.frac \/ FracLess(x.frac, y.frac))

\* x <= y as C compares two floats (false when either is a NaN).
FLe(x, y) ==
    IF x.k = "nan" \/ y.k = "nan" THEN FALSE
    ELSE IF x.k = "inf" THEN x.neg \/ (y.k = "inf" /\ ~y.neg)
    ELSE IF y.k = "inf" THEN ~y.neg
    ELSE IF x.neg /\ y.neg THEN MagLe(y, x)
    ELSE IF x.neg THEN TRUE
    ELSE IF y.neg THEN x.int = 0 /\ x.frac = <<>> /\ y.int = 0 /\ y.frac = <<>>
    ELSE MagLe(x, y)

\* The lookup-table conversion of a pulse count within the table's bounds.
LutConv(p) ==
    lmt_pulses_to_temperature(p, CONV_TYPE_LUT, CHOOSE oob \in OobRows : TRUE).temp

\* C11: the LookupTable conversion is monotonic within every segment: for
\* every segment i and all pulse counts p <= q, both in
\* [c[i].pulses, c[i+1].pulses], convert(p) <= convert(q), q the segment's
\* upper anchor and p one below it included.
C11_LutMonotonic ==
    \A c \in Solo :
        (Converted(c) /\ type[c] = CONV_TYPE_LUT /\ pulses[c] \in 26..3218) =>
            \A i \in C9_Pairs(pulses[c]) :
                \A p \in lut[i + 1][2]..pulses[c] : FLe(LutConv(p), conv[c].temp)

\* 1762 pulses, the upper anchor of segment (1602, 1762): its conversion is
\* 60, and that of 1761 pulses is below it.
C11_Witness ==
    /\ Converted("A")
    /\ type["A"] = CONV_TYPE_LUT
    /\ pulses["A"] = 1762
    /\ 10 \in C9_Pairs(1762)
    /\ conv["A"].temp = [k |-> "fin", neg |-> FALSE, int |-> 60, frac |-> <<>>]
    /\ FLe(LutConv(1761), conv["A"].temp)
    /\ ~FLe(conv["A"].temp, LutConv(1761))

(***************************************************************************)
(* C12.  Pulse counts outside the table's bounds.                          *)
(***************************************************************************)
\* C12: for every nonzero pulse count below 26 or above 3218 the LookupTable
\* conversion returns the error outcome and never a temperature value: it
\* interpolates between no rows and returns what it returns for the invalid
\* count 0.
C12_OutOfRange ==
    \A c \in Solo :
        (Converted(c) /\ type[c] = CONV_TYPE_LUT
           /\ pulses[c] # 0 /\ pulses[c] \notin 26..3218) =>
            /\ conv[c].i = -1
            /\ conv[c].temp = ZeroOutcome(CONV_TYPE_LUT)

(***************************************************************************)
(* C13 - C15.  lmt_get_temperature.                                        *)
(***************************************************************************)
\* lmt_get_temperature has returned to its caller.
GtReturned(c) == fn[c] = "lmt_get_temperature" /\ pc[c] = "done"

\* C13: lmt_get_temperature calls lmt_get_pulse_count and then the
\* conversion, once each and with no retry (one 104 ms probe in all), and
\* returns the error of either stage: an error of lmt_get_pulse_count is
\* returned as it is and nothing is converted, and a conversion that fails (a
\* measured count outside the table's bounds under the LookupTable method) is
\* returned as an error, not as LMT_OK.
C13_ErrorsPropagate ==
    \A c \in Solo :
        GtReturned(c) =>
            /\ ~Complete(dev[c]) => rslt[c] = LMT_E_NULL_PTR /\ conv[c] = NoConv
            /\ Complete(dev[c]) =>
                  /\ Cardinality({j \in 1..Len(probes[c]) : probes[c][j][1] = 104}) = 1
                  /\ Last(probes[c])[2] = 0 =>
                        rslt[c] = LMT_E_DEV_NOT_FOUND /\ conv[c] = NoConv
                  /\ (Last(probes[c])[2] # 0 /\ type[c] = CONV_TYPE_LUT
                        /\ Last(probes[c])[2] \notin 26..3218) => rslt[c] # LMT_OK

\* C14: a failure leaves the caller's output untouched.  When
\* lmt_get_pulse_count returns a status other than LMT_OK the pulse output
\* holds what it held at the call, when lmt_get_temperature returns a status
\* other than LMT_OK the temperature output holds what it held at the call,
\* and an output differs from what it held at the call only once the call
\* has returned LMT_OK.
C14_FailureLeavesOutput ==
    \A c \in Solo :
        /\ (fn[c] = "lmt_get_pulse_count" /\ pc[c] = "done" /\ rslt[c] # LMT_OK) =>
              pulsesOut[c] = before[c].pulses
        /\ (GtReturned(c) /\ rslt[c] # LMT_OK) => temp[c] = before[c].temp
        /\ (fn[c] = "lmt_get_pulse_count" /\ pulsesOut[c] # before[c].pulses) =>
              pc[c] = "done" /\ rslt[c] = LMT_OK
        /\ (fn[c] = "lmt_get_temperature" /\ temp[c] # before[c].temp) =>
              pc[c] = "done" /\ rslt[c] = LMT_OK

\* lmt_get_pulse_count found no device, and the caller's variable still
\* holds the 7 it held before.
C14_Witness ==
    /\ fn["A"] = "lmt_get_pulse_count"
    /\ pc["A"] = "done"
    /\ Complete(dev["A"])
    /\ rslt["A"] = LMT_E_DEV_NOT_FOUND
    /\ before["A"].pulses = 7
    /\ pulsesOut["A"] = 7

\* C15: when the timer reports 0 pulses for the first 10 ms probe and 1762
\* pulses for the 104 ms probe, lmt_get_temperature performs exactly those
\* two probes and returns LMT_OK with 60.0 under the LookupTable method and
\* with (1762 / 4096) * 256 - 50 = 60.125 under the Equation method.
C15_EndToEnd ==
    \A c \in Solo :
        (fn[c] = "lmt_get_temperature" /\ Complete(dev[c])
           /\ probes[c] # <<>> /\ probes[c][1] = <<10, 0>>) =>
            /\ Len(probes[c]) <= 2
            /\ pc[c] \in WindowPcs => Len(probes[c]) = 1 /\ period[c] = 104
            /\ (pc[c] = "done" /\ Last(probes[c])[2] = 1762) =>
                  /\ probes[c] = << <<10, 0>>, <<104, 1762>> >>
                  /\ rslt[c] = LMT_OK
                  /\ type[c] = CONV_TYPE_LUT =>
                        temp[c] = [k |-> "fin", neg |-> FALSE, int |-> 60, frac |-> <<>>]
                  /\ type[c] = CONV_TYPE_EQU =>
                        temp[c] = [k |-> "fin", neg |-> FALSE, int |-> 60,
                                   frac |-> <<0, 0, 1>>]

\* The LookupTable reading of the two probes: success with 60.0, written
\* over the 1.0 the caller's variable held.
C15_Witness ==
    /\ GtReturned("A")
    /\ type["A"] = CONV_TYPE_LUT
    /\ probes["A"] = << <<10, 0>>, <<104, 1762>> >>
    /\ before["A"].temp = IntToFloat(1)
    /\ rslt["A"] = LMT_OK
    /\ temp["A"] = [k |-> "fin", neg |-> FALSE, int |-> 60, frac |-> <<>>]

(***************************************************************************)
(* C16.  The capability operations of a sampling window.                   *)
(***************************************************************************)
\* The operations of count_pulses_ms, in the order of its statements.
WindowOps == <<"stop_timer", "set_timer_cnt", "start_timer", "delay_ms",
               "stop_timer", "get_timer_cnt">>

\* The caller has passed the validation of a public function that samples.
Sampling(c) ==
    /\ fn[c] \in {"lmt_init", "lmt_get_pulse_count", "lmt_get_temperature"}
    /\ Complete(dev[c])
    /\ pc[c] # "check"

\* C16: every sampling window issues exactly stop, reset of the count to
\* zero, start, delay, stop, read of the count, in this order and with nothing
\* in between; the delay is issued only while the timer is running with its
\* count reset, the count is read only after the second stop, and it is what
\* the window returns.
C16_WindowOperations ==
    \A c \in Solo :
        Sampling(c) =>
            /\ pc[c] = "stop" => winLog[c] \in {<<>>, WindowOps}
            /\ pc[c] = "set" => winLog[c] = SubSeq(WindowOps, 1, 1) /\ ~running
            /\ pc[c] = "start" =>
                  winLog[c] = SubSeq(WindowOps, 1, 2) /\ ~running /\ cnt = 0
            /\ pc[c] = "delay" =>
                  winLog[c] = SubSeq(WindowOps, 1, 3) /\ running /\ cnt = 0
            /\ pc[c] = "stop2" => winLog[c] = SubSeq(WindowOps, 1, 4) /\ running
            /\ pc[c] = "get" => winLog[c] = SubSeq(WindowOps, 1, 5) /\ ~running
            /\ pc[c] \in {"counted", "gt_check", "convert", "done"} =>
                  winLog[c] = WindowOps /\ ~running
            /\ pc[c] = "counted" =>
                  count[c] = cnt /\ Last(probes[c]) = <<period[c], cnt>>

\* The 104 ms window of a reading about to read the count: five operations
\* issued, the timer stopped with the 1762 pulses of the delay in it.
C16_Witness ==
    /\ Sampling("A")
    /\ fn["A"] = "lmt_get_pulse_count"
    /\ pc["A"] = "get"
    /\ period["A"] = 104
    /\ winLog["A"] = <<"stop_timer", "set_timer_cnt", "start_timer", "delay_ms",
                       "stop_timer">>
    /\ ~running
    /\ cnt = 1762

(***************************************************************************)
(* C17.  The rows of the table the LookupTable conversion reads.           *)
(***************************************************************************)
\* C17: for every pulse count in [26, 3218] every read of the table uses an
\* index in 0..20; for a nonzero pulse count below 26 or above 3218 the scan
\* falls through without finding a pair and the table is read at index 21,
\* one slot past its last entry, and no further.
C17_TableAccess ==
    \A c \in Solo :
        (Converted(c) /\ type[c] = CONV_TYPE_LUT /\ pulses[c] # 0) =>
            /\ pulses[c] \in 26..3218 => conv[c].rows \subseteq 0..20
            /\ pulses[c] \notin 26..3218 =>
                  /\ conv[c].i = LEN_lut
                  /\ 21 \in conv[c].rows
                  /\ conv[c].rows \subseteq 0..21

(***************************************************************************)
(* C19.  The timer is stopped when a public function returns.              *)
(***************************************************************************)
\* The public function the caller called has returned.
HasReturned(c) == pc[c] = "done" /\ fn[c] # "none"

\* C19: with a single caller the timer is stopped whenever lmt_init,
\* lmt_get_pulse_count or lmt_get_temperature returns after passing the
\* validation of the capability, with LMT_OK and with LMT_E_DEV_NOT_FOUND
\* alike and whether or not the timer was running when the call began; no
\* public function returns with the timer left running: a function that
\* returns while the timer runs has issued no capability operation at all.
C19_StoppedAtReturn ==
    \A c \in Solo :
        /\ (Sampling(c) /\ pc[c] \in {"gt_check", "convert", "done"}) =>
              /\ ~running
              /\ rslt[c] \in {LMT_OK, LMT_E_DEV_NOT_FOUND}
        /\ (HasReturned(c) /\ running) => winLog[c] = <<>> /\ probes[c] = <<>>

\* lmt_init returned LMT_E_DEV_NOT_FOUND after its 60 ms window, the timer
\* stopped.
C19_Witness ==
    /\ fn["A"] = "lmt_init"
    /\ pc["A"] = "done"
    /\ Sampling("A")
    /\ rslt["A"] = LMT_E_DEV_NOT_FOUND
    /\ winLog["A"] = WindowOps
    /\ ~running

(***************************************************************************)
(* C18.  Two callers on one timer.                                         *)
(***************************************************************************)
\* No caller but c has called the driver so far.
OnlyCaller(c) == \A d \in Callers \ {c} : fn[d] = "none"

\* C18: the driver takes no lock on the timer.  As long as a single caller
\* uses it, the count every window returns equals the pulses that arrived
\* during the window's delay, between its start and its second stop; a count
\* that differs from them is obtained only once a second caller runs its
\* stop / reset / start / delay operations on the same timer (that such a
\* count is obtained then is the state C18_Witness).
C18_NoLock ==
    \A c \in Callers :
        /\ (pc[c] = "counted" /\ OnlyCaller(c)) =>
              /\ count[c] = arrived[c]
              /\ Last(probes[c]) = <<period[c], arrived[c]>>
        /\ (pc[c] \in {"stop2", "get"} /\ OnlyCaller(c)) => cnt = arrived[c]
        /\ (pc[c] = "counted" /\ count[c] # arrived[c]) =>
              \E d \in Callers \ {c} : fn[d] \in {"lmt_init", "lmt_get_pulse_count"}

\* 1762 pulses arrived during the delay of the 104 ms window of A's
\* lmt_get_pulse_count, B's lmt_init reset the count before A's second stop
\* and is now in its own delay: A's window returned 0.
C18_Witness ==
    /\ fn["A"] = "lmt_get_pulse_count"
    /\ pc["A"] = "counted"
    /\ period["A"] = 104
    /\ arrived["A"] = 1762
    /\ count["A"] = 0
    /\ fn["B"] = "lmt_init"
    /\ pc["B"] \in {"start", "delay"}

=============================================================================
